---- MODULE Spec2Model ----
(***************************************************************************)
(* The support-portal backend proxy (server.js): the CORS middleware, the  *)
(* Express route table and the route handlers, with the CRM connection     *)
(* (jsforce) and the language model (Gemini) as upstream collaborators     *)
(* whose calls resolve or reject nondeterministically.                     *)
(*                                                                         *)
(* Node runs a handler to its next await without interleaving, so one      *)
(* action is the arrival of a request (middleware, routing and the         *)
(* handler up to its first await or its response), and one action is the   *)
(* settling of each awaited upstream call (the handler from that await to  *)
(* the next one or to its response).                                       *)
(***************************************************************************)
EXTENDS Integers, Sequences, FiniteSets, TLC

\* Requests handled at the same time.
MaxInFlight == 1

(***************************************************************************)
(* JavaScript values, tagged by type.                                      *)
(***************************************************************************)
Undefined == [t |-> "undefined"]
Str(s) == [t |-> "string", s |-> s]
Bool(b) == [t |-> "boolean", b |-> b]

\* !v is false for a JS value
Truthy(v) ==
  CASE v.t = "undefined" -> FALSE
    [] v.t = "string" -> v.s # ""
    [] v.t = "boolean" -> v.b

\* a || b
JsOr(a, b) == IF Truthy(a) THEN a ELSE b

(***************************************************************************)
(* Response bodies.                                                        *)
(***************************************************************************)
JArr(seq) == [j |-> "array", v |-> seq]
JObj(rec) == [j |-> "object", v |-> rec]
\* res.json(undefined): JSON.stringify gives no text, the body is empty
JNone == [j |-> "undefined"]
Text(s) == [j |-> "text", v |-> s]
\* Express's own error page / 404 page
Html == [j |-> "html"]

NoResp == [status |-> 0, body |-> JNone]
Resp(code, body) == [status |-> code, body |-> body]

\* res.json(x) for a value the CRM returned: arrays and objects as they
\* are, undefined as an empty body
ToJson(x) ==
  CASE x.k = "undefined" -> JNone
    [] x.k = "array" -> JArr(x.v)
    [] x.k = "object" -> JObj(x.v)

UVal(kind, v) == [k |-> kind, v |-> v]
UUndef == [k |-> "undefined"]

(***************************************************************************)
(* Origins, as the sequence of their parts.                                *)
(***************************************************************************)
NoOrigin == <<>>
Localhost == <<"http://", "localhost", ":3000">>
Preview == <<"https://", "portal-git-main", ".", "vercel", ".", "app">>
Lookalike == <<"https://", "vercel", ".", "app", ".", "evil", ".", "com">>
Foreign == <<"https://", "evil", ".", "com">>
Origins == {NoOrigin, Localhost, Preview, Lookalike, Foreign}

allowedOrigins == <<Localhost>>

\* String.prototype.includes
Includes(s, needle) ==
  \E i \in 1..(Len(s) - Len(needle) + 1) :
    SubSeq(s, i, i + Len(needle) - 1) = needle

\* Array.prototype.indexOf, -1 when absent
IndexOf(arr, x) ==
  IF \E i \in 1..Len(arr) : arr[i] = x
    THEN (CHOOSE i \in 1..Len(arr) :
            arr[i] = x /\ \A k \in 1..(i - 1) : arr[k] # x) - 1
    ELSE -1

\* The cors origin callback: TRUE for callback(null, true), FALSE for
\* callback(new Error(msg), false)
CorsOrigin(origin) ==
  IF origin = <<>> THEN TRUE
  ELSE IF Includes(origin, <<"vercel", ".", "app">>) THEN TRUE
  ELSE IF IndexOf(allowedOrigins, origin) = -1 THEN FALSE
  ELSE TRUE

(***************************************************************************)
(* Requests.  A path is the sequence of its decoded segments; a body is    *)
(* what express.json() leaves in req.body ({} when nothing was sent).      *)
(***************************************************************************)
VARIABLES
  login,     \* the startup conn.login: "pending", "ok" or "failed"
  process,   \* "running" or "exited"
  reqs,      \* slot -> the request handled there, or Idle
  loginAttempts,  \* calls of conn.login so far
  tab        \* the frontend's SearchTab: its state and its request

vars == <<login, process, reqs, loginAttempts, tab>>

Slots == 1..MaxInFlight
Idle == [pc |-> "idle"]

\* conn.accessToken is set by a successful login and by nothing else
accessToken == login = "ok"

EmptyBody ==
  [commentBody |-> Undefined, isPublic |-> Undefined, searchTerm |-> Undefined]

NewRequest(method, path, origin, body) ==
  [method |-> method, path |-> path, origin |-> origin, body |-> body,
   ran |-> <<>>, calls |-> <<>>, pc |-> "received", authed |-> FALSE,
   articles |-> <<>>, next |-> FALSE, resp |-> NoResp]

\* res.status(code).json(body) / res.json(body) / res.send(text)
Send(r, code, body) ==
  [r EXCEPT !.resp = Resp(code, body), !.pc = "done"]

\* an upstream call is started and awaited; it carries the session the
\* connection holds at that moment
Pending == [none |-> TRUE]

Issue(r, op, arg, pc) ==
  [r EXCEPT !.calls = Append(@, [op |-> op, arg |-> arg, out |-> "pending", ret |-> Pending]),
            !.pc = pc, !.authed = accessToken]

\* the awaited call, the last one started, resolves to ret / rejects
Resolved(r, ret) ==
  [r EXCEPT !.calls[Len(r.calls)].out = "resolved", !.calls[Len(r.calls)].ret = ret]

Rejected(r) == [r EXCEPT !.calls[Len(r.calls)].out = "rejected"]

\* an exception leaves the async handler: the promise it returned is
\* rejected, nobody handles it, and no response is sent
Escape(r) == [r EXCEPT !.pc = "escaped"]

ErrorBody(msg) == JObj([error |-> msg])

(***************************************************************************)
(* The route handlers, up to their first await.                            *)
(***************************************************************************)
\* Healthcheck reporting the state of the CRM session
HealthcheckNeedsSession(r) ==
  IF accessToken THEN Send(r, 200, Text("OK"))
                 ELSE Send(r, 503, Text("Salesforce not connected"))

Healthcheck(r) == Send(r, 200, Text("OK"))

Categories(r) ==
  Issue(r, "getDataCategoryGroups", [groups |-> <<"Knowledge">>], "await_groups")

Articles(r, categoryName) ==
  Issue(r, "query",
        [q |-> <<"SELECT Id, Title, UrlName, Summary FROM Knowledge__kav WHERE PublishStatus='Online' AND Language='en_US' AND DataCategorySelections.Knowledge.at('",
                 categoryName,
                 "') ORDER BY LastPublishedDate DESC LIMIT 20">>],
        "await_query")

\* Cases1 handing a request without a session on to the next handler
Cases1PassesOn(r, email) ==
  IF ~accessToken
    THEN [r EXCEPT !.next = TRUE]
    ELSE Issue(r, "query",
               [q |-> <<"SELECT Id, CaseNumber, Subject, Description, Status, CreatedDate FROM Case WHERE Contact.Email = '",
                        email,
                        "' AND Status != 'Closed' ORDER BY CreatedDate DESC">>],
               "await_query")

\* first registration of GET /api/cases/:email
Cases1(r, email) ==
  IF ~accessToken
    THEN Send(r, 401, ErrorBody(<<"Salesforce not connected">>))
    ELSE Issue(r, "query",
               [q |-> <<"SELECT Id, CaseNumber, Subject, Description, Status, CreatedDate FROM Case WHERE Contact.Email = '",
                        email,
                        "' AND Status != 'Closed' ORDER BY CreatedDate DESC">>],
               "await_query")

\* second registration of GET /api/cases/:email
Cases2(r, email) ==
  IF ~Truthy(Str(email))
    THEN Send(r, 400, ErrorBody(<<"Email parameter is required.">>))
    ELSE Issue(r, "query",
               [q |-> <<"SELECT Id, CaseNumber, Subject, Status, CreatedDate, Description FROM Case WHERE ContactEmail = '",
                        email,
                        "' AND IsClosed = false ORDER BY CreatedDate DESC">>],
               "await_query")

\* Reply with the comment published unless the caller says otherwise
ReplyPublishedByDefault(r, caseId) ==
  IF ~Truthy(r.body.commentBody)
    THEN Send(r, 400, ErrorBody(<<"commentBody is required.">>))
    ELSE Issue(r, "create",
               [ParentId |-> caseId,
                CommentBody |-> r.body.commentBody,
                IsPublished |-> JsOr(r.body.isPublic, Bool(TRUE))],
               "await_create")

Reply(r, caseId) ==
  IF ~Truthy(r.body.commentBody)
    THEN Send(r, 400, ErrorBody(<<"commentBody is required.">>))
    ELSE Issue(r, "create",
               [ParentId |-> caseId,
                CommentBody |-> r.body.commentBody,
                IsPublished |-> JsOr(r.body.isPublic, Bool(FALSE))],
               "await_create")

\* `${searchTerm}` in a template literal
TemplateString(v) ==
  CASE v.t = "string" -> v.s
    [] v.t = "boolean" -> IF v.b THEN "true" ELSE "false"
    [] v.t = "undefined" -> "undefined"

Search(r) ==
  IF ~Truthy(r.body.searchTerm)
    THEN Send(r, 400, ErrorBody(<<"searchTerm is required.">>))
    ELSE Issue(r, "search",
               [q |-> <<"FIND {*", TemplateString(r.body.searchTerm),
                        "*} IN ALL FIELDS RETURNING Knowledge__kav(Id, Title, Summary, UrlName WHERE PublishStatus='Online' AND Language='en_US' LIMIT 10)">>],
               "await_search")

(***************************************************************************)
(* Routing: app.get / app.post in registration order.                      *)
(***************************************************************************)
routes ==
  << [method |-> "GET", pattern |-> <<"api", "healthcheck">>, handler |-> "healthcheck"],
     [method |-> "GET", pattern |-> <<"api", "knowledge", "categories">>, handler |-> "categories"],
     [method |-> "GET", pattern |-> <<"api", "knowledge", "articles", ":categoryName">>, handler |-> "articles"],
     [method |-> "GET", pattern |-> <<"api", "cases", ":email">>, handler |-> "cases1"],
     [method |-> "GET", pattern |-> <<"api", "cases", ":email">>, handler |-> "cases2"],
     [method |-> "POST", pattern |-> <<"api", "cases", ":caseId", "reply">>, handler |-> "reply"],
     [method |-> "POST", pattern |-> <<"api", "search">>, handler |-> "search"] >>

IsParam(seg) == seg \in {":categoryName", ":email", ":caseId"}

\* a route matches when every literal segment is equal and every named
\* parameter stands for a non-empty segment
Matches(route, method, path) ==
  /\ route.method = method
  /\ Len(route.pattern) = Len(path)
  /\ \A i \in 1..Len(path) :
       IF IsParam(route.pattern[i]) THEN path[i] # ""
                                    ELSE route.pattern[i] = path[i]

\* req.params[name]
Param(route, path, name) ==
  path[CHOOSE i \in 1..Len(path) : route.pattern[i] = name]

\* the handler of one route, run on r
RunHandler(route, r) ==
  LET h == route.handler
      rr == [r EXCEPT !.ran = Append(@, h), !.next = FALSE]
  IN CASE h = "healthcheck" -> Healthcheck(rr)
       [] h = "categories" -> Categories(rr)
       [] h = "articles" -> Articles(rr, Param(route, r.path, ":categoryName"))
       [] h = "cases1" -> Cases1(rr, Param(route, r.path, ":email"))
       [] h = "cases2" -> Cases2(rr, Param(route, r.path, ":email"))
       [] h = "reply" -> Reply(rr, Param(route, r.path, ":caseId"))
       [] h = "search" -> Search(rr)

\* the router walks the routes from index i on: the first match runs, and
\* a later match runs only when the handler before it called next();
\* when none is left, Express answers 404
RECURSIVE Router(_, _)
Router(r, i) ==
  IF i > Len(routes) THEN Send(r, 404, Html)
  ELSE IF Matches(routes[i], r.method, r.path)
    THEN LET after == RunHandler(routes[i], r)
         IN IF after.next THEN Router(after, i + 1) ELSE after
    ELSE Router(r, i + 1)

\* app.use(cors(...)): a refused origin goes to next(err), which skips
\* every route and ends in Express's error handler
Middleware(r) ==
  IF CorsOrigin(r.origin) THEN Router(r, 1) ELSE Send(r, 500, Html)

(***************************************************************************)
(* What the collaborators can return.                                      *)
(***************************************************************************)
A1 == [Id |-> "ka1", Title |-> "Reset Password", Summary |-> "How to reset it", UrlName |-> "reset-password"]
A2 == [Id |-> "ka2", Title |-> "Billing FAQ", Summary |-> "About invoices", UrlName |-> "billing-faq"]
Case1 == [Id |-> "5001", CaseNumber |-> "00001001", Subject |-> "Cannot log in", Status |-> "New"]

GroupsResults == {<<>>, <<[name |-> "Knowledge", label |-> "Knowledge"]>>}
TreeResults ==
  {[name |-> "Knowledge", topCategories |-> <<>>],
   [name |-> "Knowledge", topCategories |-> <<[name |-> "Billing", label |-> "Billing"]>>]}
ArticleQueryResults ==
  {[totalSize |-> 0, records |-> <<>>], [totalSize |-> 1, records |-> <<A1>>], [totalSize |-> 0]}
CaseQueryResults ==
  {[totalSize |-> 0, records |-> <<>>], [totalSize |-> 1, records |-> <<Case1>>], [totalSize |-> 0]}
CreateResults == {[id |-> "00a1", success |-> TRUE]}
\* candidate lists in both orders, an empty one, and a result without
\* searchRecords
SearchResults ==
  {[searchRecords |-> <<>>], [searchRecords |-> <<A1>>],
   [searchRecords |-> <<A1, A2>>], [searchRecords |-> <<A2, A1>>],
   [queryId |-> "none"]}
Completions == {"Use the reset link [Reset Password].", "I could not find an answer in the knowledge base."}

\* obj[name] in JavaScript: undefined when the field is absent
Field(obj, name) ==
  IF name \in DOMAIN obj THEN UVal("array", obj[name]) ELSE UUndef

(***************************************************************************)
(* The handlers after each await.  ok is whether the awaited promise       *)
(* resolved; result is what it resolved to.                                *)
(***************************************************************************)
CategoriesCatch(r) ==
  Send(r, 500, ErrorBody(<<"Failed to fetch knowledge categories">>))

\* AfterGroups asking for the category groups a second time when the first
\* call failed
AfterGroupsRetry(r, ok, groups) ==
  IF ~ok /\ Len(r.calls) < 2
    THEN Issue(r, "getDataCategoryGroups", [groups |-> <<"Knowledge">>], "await_groups")
  ELSE IF ~ok \/ Len(groups) = 0 THEN CategoriesCatch(r)
  ELSE Issue(r, "getCategoryTree", [name |-> groups[1].name, depth |-> 4], "await_tree")

\* dataCategoryGroups[0] is undefined for an empty list, and reading its
\* .name throws a TypeError inside the try
AfterGroups(r, ok, groups) ==
  IF ~ok THEN CategoriesCatch(r)
  ELSE IF Len(groups) = 0 THEN CategoriesCatch(r)
  ELSE Issue(r, "getCategoryTree", [name |-> groups[1].name, depth |-> 4], "await_tree")

AfterTree(r, ok, tree) ==
  IF ok THEN Send(r, 200, JObj(tree)) ELSE CategoriesCatch(r)

\* the catch block of the article-list handler
ArticlesCatch(r) ==
  Send(r, 500, ErrorBody(<<"Failed to fetch articles">>))

AfterArticlesQuery(r, ok, result) ==
  IF ok THEN Send(r, 200, ToJson(Field(result, "records"))) ELSE ArticlesCatch(r)

\* the catch block names urlName, which no scope of the handler declares:
\* evaluating it throws a ReferenceError before anything is sent
Cases1Catch(r) == Escape(r)

\* AfterCases1Query treating an empty record list as "not found"
AfterCases1QueryEmptyIs404(r, ok, result) ==
  IF ~ok THEN Cases1Catch(r)
  ELSE IF Field(result, "records").k = "array" /\ Len(result.records) = 0
    THEN Send(r, 404, ErrorBody(<<"No open cases">>))
  ELSE Send(r, 200, ToJson(Field(result, "records")))

AfterCases1Query(r, ok, result) ==
  IF ok THEN Send(r, 200, ToJson(Field(result, "records"))) ELSE Cases1Catch(r)

Cases2Catch(r) ==
  Send(r, 500, ErrorBody(<<"Failed to fetch cases for email ", r.path[3]>>))

AfterCases2Query(r, ok, result) ==
  IF ok THEN Send(r, 200, ToJson(Field(result, "records"))) ELSE Cases2Catch(r)

ReplyCatch(r) == Send(r, 500, ErrorBody(<<"Failed to post reply">>))

AfterCreate(r, ok, result) ==
  IF ok THEN Send(r, 201, JObj(result)) ELSE ReplyCatch(r)

SearchCatch(r) == Send(r, 500, ErrorBody(<<"Failed to perform search">>))

\* Context built from the first article only
ContextFirstOnly(articles) ==
  IF Len(articles) = 0 THEN <<>>
  ELSE <<"Title: ", Head(articles).Title, "\nSummary: ", Head(articles).Summary>>

\* articles.map(art => `Title: ${art.Title}\nSummary: ${art.Summary}`)
\*         .join('\n\n---\n\n')
RECURSIVE Context(_)
Context(articles) ==
  IF Len(articles) = 0 THEN <<>>
  ELSE LET art == Head(articles)
           one == <<"Title: ", art.Title, "\nSummary: ", art.Summary>>
       IN IF Len(articles) = 1 THEN one
          ELSE one \o <<"\n\n---\n\n">> \o Context(Tail(articles))

Prompt(articles, searchTerm) ==
  <<"Based on the following knowledge base articles, please answer the user's question. Provide a concise, helpful answer and cite the titles of the articles you used. If the articles don't contain the answer, say that you couldn't find an answer in the knowledge base. ARTICLES: ---">>
  \o Context(articles)
  \o <<"--- USER QUESTION: \"", TemplateString(searchTerm), "\" ANSWER:">>

NoArticlesAnswer ==
  JObj([answer |-> "I couldn't find any articles related to your search.",
        sources |-> <<>>])

\* AfterSearch testing only that the candidate list exists, not that it
\* has an element
AfterSearchLengthUnchecked(r, ok, soslResult) ==
  IF ~ok THEN SearchCatch(r)
  ELSE LET articles == Field(soslResult, "searchRecords")
       IN IF articles.k = "undefined"
            THEN Send(r, 200, NoArticlesAnswer)
            ELSE Issue([r EXCEPT !.articles = articles.v], "generateContent",
                       [prompt |-> Prompt(articles.v, r.body.searchTerm)],
                       "await_generate")

AfterSearch(r, ok, soslResult) ==
  IF ~ok THEN SearchCatch(r)
  ELSE LET articles == Field(soslResult, "searchRecords")
       IN IF articles.k = "undefined" \/ Len(articles.v) = 0
            THEN Send(r, 200, NoArticlesAnswer)
            ELSE Issue([r EXCEPT !.articles = articles.v], "generateContent",
                       [prompt |-> Prompt(articles.v, r.body.searchTerm)],
                       "await_generate")

AfterGenerate(r, ok, text) ==
  IF ok THEN Send(r, 200, JObj([answer |-> text, sources |-> r.articles]))
        ELSE SearchCatch(r)

(***************************************************************************)
(* The frontend's SearchTab (App.jsx).  A term is the sequence of its      *)
(* characters.                                                             *)
(***************************************************************************)
\* Longest search term typed.
MaxTermLen == 2
\* Submissions of the search form followed.
MaxSubmits == 3

Null == [j |-> "null"]

\* useState('') / useState(null) / useState(false) / useState(''); phase
\* follows the tab's request, submits counts the calls of handleSearch and
\* blanks those that returned at the blank-term test
SearchTab ==
  [searchTerm |-> <<>>, results |-> Null, isLoading |-> FALSE, error |-> "",
   phase |-> "idle", submits |-> 0, blanks |-> 0]

IsSpace(c) == c \in {" ", "\t"}

\* String.prototype.trim
RECURSIVE TrimStart(_)
TrimStart(t) ==
  IF t # <<>> /\ IsSpace(Head(t)) THEN TrimStart(Tail(t)) ELSE t

RECURSIVE TrimEnd(_)
TrimEnd(t) ==
  IF t # <<>> /\ IsSpace(t[Len(t)]) THEN TrimEnd(SubSeq(t, 1, Len(t) - 1)) ELSE t

Trim(t) == TrimEnd(TrimStart(t))

\* handleSearch, to its await
HandleSearchStart(t) ==
  LET called == [t EXCEPT !.submits = @ + 1]
  IN IF Trim(t.searchTerm) = <<>> THEN [called EXCEPT !.blanks = @ + 1]
     ELSE [called EXCEPT !.isLoading = TRUE, !.error = "", !.results = Null,
                         !.phase = "inflight"]

\* handleSearch after the await resolved: setResults, then finally
SearchSucceeded(t, data) ==
  [t EXCEPT !.results = data, !.isLoading = FALSE, !.phase = "succeeded"]

\* SearchFailed without the finally block
SearchFailedKeepsLoading(t) ==
  [t EXCEPT !.error = "An error occurred during the search. Please try again.",
            !.phase = "failed"]

\* handleSearch after the await rejected: catch, then finally
SearchFailed(t) ==
  [t EXCEPT !.error = "An error occurred during the search. Please try again.",
            !.isLoading = FALSE, !.phase = "failed"]

\* <button type="submit" disabled={isLoading}>: a form whose submit button
\* is disabled is not submitted
SubmitDisabled(t) == t.isLoading

(***************************************************************************)
(* The state machine.                                                      *)
(***************************************************************************)
Init ==
  /\ login = "pending"        \* conn.login was called while the module loaded
  /\ process = "running"
  /\ reqs = [s \in Slots |-> Idle]
  /\ loginAttempts = 1
  /\ tab = SearchTab

\* the conn.login calls a request has made
LoginCalls(r) ==
  IF r.pc = "idle" THEN 0
  ELSE Cardinality({i \in 1..Len(r.calls) : r.calls[i].op = "login"})

\* the callback of conn.login, without and with err
LoginSucceeds ==
  /\ process = "running" /\ login = "pending"
  /\ login' = "ok"
  /\ UNCHANGED <<process, reqs, loginAttempts, tab>>

\* LoginFails logging in again from the error branch of the callback
LoginFailsAndRetries ==
  /\ process = "running" /\ login = "pending"
  /\ login' = "pending"
  /\ loginAttempts' = loginAttempts + 1
  /\ UNCHANGED <<process, reqs, tab>>

LoginFails ==
  /\ process = "running" /\ login = "pending"
  /\ login' = "failed"
  /\ UNCHANGED <<process, reqs, loginAttempts, tab>>

\* a request arrives and runs through the middleware, the router and its
\* handler until the handler awaits or has answered
Arrive(method, path, origin, body) ==
  /\ process = "running"
  /\ \E s \in Slots :
       /\ reqs[s] = Idle
       /\ \A k \in Slots : k < s => reqs[k] # Idle
       /\ reqs' = [reqs EXCEPT ![s] = Middleware(NewRequest(method, path, origin, body))]
       /\ loginAttempts' = loginAttempts + LoginCalls(reqs'[s])
  /\ UNCHANGED <<login, process, tab>>

Emails == {" ", "pat@example.com"}
CommentBodies == {Undefined, Str(""), Str(" "), Str("thanks")}
IsPublicValues == {Undefined, Bool(TRUE), Bool(FALSE)}
SearchTerms == {Undefined, Str(""), Str(" "), Str("password")}

GetHealthcheck ==
  \E o \in Origins : Arrive("GET", <<"api", "healthcheck">>, o, EmptyBody)

GetCategories ==
  \E o \in Origins : Arrive("GET", <<"api", "knowledge", "categories">>, o, EmptyBody)

GetArticles ==
  \E o \in Origins :
    Arrive("GET", <<"api", "knowledge", "articles", "Billing">>, o, EmptyBody)

\* the article-detail path the frontend asks for; no route is registered
GetArticle ==
  \E o \in Origins :
    Arrive("GET", <<"api", "knowledge", "article", "reset-password">>, o, EmptyBody)

\* with the email segment, and with it left out
GetCases ==
  \E o \in Origins :
    \E path \in {<<"api", "cases">>} \cup {<<"api", "cases", e>> : e \in Emails} :
      Arrive("GET", path, o, EmptyBody)

PostReply ==
  \E o \in Origins : \E c \in CommentBodies : \E p \in IsPublicValues :
    Arrive("POST", <<"api", "cases", "5001", "reply">>, o,
           [EmptyBody EXCEPT !.commentBody = c, !.isPublic = p])

PostSearch ==
  \E o \in Origins : \E t \in SearchTerms :
    Arrive("POST", <<"api", "search">>, o, [EmptyBody EXCEPT !.searchTerm = t])

\* an awaited CRM call settles: it can resolve only when it carried a
\* session, and it can always reject
Settle(s, after) ==
  /\ process = "running"
  /\ reqs' = [reqs EXCEPT ![s] = after]
  /\ loginAttempts' = loginAttempts + LoginCalls(after) - LoginCalls(reqs[s])
  /\ UNCHANGED <<login, process, tab>>

GroupsSettle ==
  \E s \in Slots :
    /\ reqs[s].pc = "await_groups"
    /\ \/ \E g \in GroupsResults :
            reqs[s].authed /\ Settle(s, AfterGroups(Resolved(reqs[s], g), TRUE, g))
       \/ Settle(s, AfterGroups(Rejected(reqs[s]), FALSE, <<>>))

TreeSettle ==
  \E s \in Slots :
    /\ reqs[s].pc = "await_tree"
    /\ \/ \E t \in TreeResults :
            reqs[s].authed /\ Settle(s, AfterTree(Resolved(reqs[s], t), TRUE, t))
       \/ Settle(s, AfterTree(Rejected(reqs[s]), FALSE, <<>>))

\* conn.query, resumed in the handler that awaits it
AfterQuery(r, ok, result) ==
  LET h == r.ran[Len(r.ran)]
  IN CASE h = "articles" -> AfterArticlesQuery(r, ok, result)
       [] h = "cases1" -> AfterCases1Query(r, ok, result)
       [] h = "cases2" -> AfterCases2Query(r, ok, result)

QueryResults(r) ==
  IF r.ran[Len(r.ran)] = "articles" THEN ArticleQueryResults ELSE CaseQueryResults

QuerySettle ==
  \E s \in Slots :
    /\ reqs[s].pc = "await_query"
    /\ \/ \E q \in QueryResults(reqs[s]) :
            reqs[s].authed /\ Settle(s, AfterQuery(Resolved(reqs[s], q), TRUE, q))
       \/ Settle(s, AfterQuery(Rejected(reqs[s]), FALSE, <<>>))

CreateSettle ==
  \E s \in Slots :
    /\ reqs[s].pc = "await_create"
    /\ \/ \E c \in CreateResults :
            reqs[s].authed /\ Settle(s, AfterCreate(Resolved(reqs[s], c), TRUE, c))
       \/ Settle(s, AfterCreate(Rejected(reqs[s]), FALSE, <<>>))

SearchSettle ==
  \E s \in Slots :
    /\ reqs[s].pc = "await_search"
    /\ \/ \E q \in SearchResults :
            reqs[s].authed /\ Settle(s, AfterSearch(Resolved(reqs[s], q), TRUE, q))
       \/ Settle(s, AfterSearch(Rejected(reqs[s]), FALSE, <<>>))

\* model.generateContent and response.text(): the language model needs no
\* CRM session
GenerateSettle ==
  \E s \in Slots :
    /\ reqs[s].pc = "await_generate"
    /\ \/ \E t \in Completions : Settle(s, AfterGenerate(Resolved(reqs[s], t), TRUE, t))
       \/ Settle(s, AfterGenerate(Rejected(reqs[s]), FALSE, ""))

\* the connection of an answered request closes; a client that never got
\* an answer gives up
Retire ==
  /\ process = "running"
  /\ \E s \in Slots :
       /\ reqs[s].pc \in {"done", "escaped"}
       /\ reqs' = [reqs EXCEPT ![s] = Idle]
  /\ UNCHANGED <<login, process, loginAttempts, tab>>

\* an unhandled promise rejection ends the process on Node 15 and later
\* (earlier versions only warn, which is this action not being taken)
UnhandledRejectionExit ==
  /\ process = "running"
  /\ \E s \in Slots : reqs[s].pc = "escaped"
  /\ process' = "exited"
  /\ UNCHANGED <<login, reqs, loginAttempts, tab>>

Next ==
  \/ LoginSucceeds \/ LoginFails
  \/ GetHealthcheck \/ GetCategories \/ GetArticles \/ GetArticle
  \/ GetCases \/ PostReply \/ PostSearch
  \/ GroupsSettle \/ TreeSettle \/ QuerySettle \/ CreateSettle
  \/ SearchSettle \/ GenerateSettle
  \/ Retire \/ UnhandledRejectionExit

Spec == Init /\ [][Next]_vars

(***************************************************************************)
(* The SearchTab on its own: the user types and submits, and the POST      *)
(* /search it sent comes back with a 2xx body or fails.                    *)
(***************************************************************************)
RECURSIVE TermsUpTo(_)
TermsUpTo(n) ==
  IF n = 0 THEN {<<>>}
  ELSE LET shorter == TermsUpTo(n - 1)
       IN shorter \cup {Append(q, c) : q \in {t \in shorter : Len(t) = n - 1}, c \in {" ", "\t", "a"}}

\* the bodies POST /search answers a success with
SearchData ==
  {NoArticlesAnswer,
   JObj([answer |-> "Use the reset link [Reset Password].", sources |-> <<A1>>])}

TabStep(t) ==
  /\ tab' = t
  /\ UNCHANGED <<login, process, reqs, loginAttempts>>

\* onChange of the input
SetSearchTerm ==
  \E term \in TermsUpTo(MaxTermLen) :
    /\ term # tab.searchTerm
    /\ TabStep([tab EXCEPT !.searchTerm = term])

\* onSubmit of the form
HandleSearch ==
  /\ ~SubmitDisabled(tab)
  /\ tab.submits < MaxSubmits
  /\ TabStep(HandleSearchStart(tab))

\* axios.post resolves (a 2xx response)
SearchResponse ==
  /\ tab.phase = "inflight"
  /\ \E data \in SearchData : TabStep(SearchSucceeded(tab, data))

\* axios.post rejects (another status, or no response)
SearchError ==
  /\ tab.phase = "inflight"
  /\ TabStep(SearchFailed(tab))

TabNext == SetSearchTerm \/ HandleSearch \/ SearchResponse \/ SearchError

TabSpec == Init /\ [][TabNext]_vars

(***************************************************************************)
(* Properties.                                                             *)
(***************************************************************************)
Active == {s \in Slots : reqs[s].pc # "idle"}
Range(q) == {q[i] : i \in 1..Len(q)}
Ops(r) == [i \in 1..Len(r.calls) |-> r.calls[i].op]
Answered(r) == r.pc = "done" /\ r.resp.status # 0
IsErrorEnvelope(body) ==
  /\ body.j = "object"
  /\ DOMAIN body.v = {"error"}
  /\ body.v.error # <<>>
  /\ \A i \in 1..Len(body.v.error) : body.v.error[i] \in STRING

\* what the client asked for
AsksCases(r) ==
  /\ r.method = "GET" /\ Len(r.path) \in {2, 3}
  /\ SubSeq(r.path, 1, 2) = <<"api", "cases">>
AsksReply(r) ==
  /\ r.method = "POST" /\ Len(r.path) = 4
  /\ r.path[1] = "api" /\ r.path[2] = "cases" /\ r.path[4] = "reply"
AsksSearch(r) == r.method = "POST" /\ r.path = <<"api", "search">>

\* omitted, empty, or only white space
Blank(v) == v = Undefined \/ v = Str("") \/ v = Str(" ")

\* the parameter the route requires is omitted or blank
LacksRequired(r) ==
  \/ AsksCases(r) /\ (Len(r.path) = 2 \/ Blank(Str(r.path[Len(r.path)])))
  \/ AsksReply(r) /\ Blank(r.body.commentBody)
  \/ AsksSearch(r) /\ Blank(r.body.searchTerm)

\* C1: a request to GET /cases/:email, POST /cases/:caseId/reply or
\* POST /search whose required parameter (email, commentBody, searchTerm)
\* is omitted or blank is answered 400 with a non-empty error field, and no
\* upstream call is made for it.
C1_BlankParameterIs400 ==
  \A s \in Active :
    LET r == reqs[s]
    IN (CorsOrigin(r.origin) /\ LacksRequired(r)) =>
         /\ Answered(r)
         /\ r.resp.status = 400
         /\ IsErrorEnvelope(r.resp.body)
         /\ r.calls = <<>>

HasRejectedCall(r) == \E i \in 1..Len(r.calls) : r.calls[i].out = "rejected"

\* C2: whenever an upstream call of a request failed, the handler has sent
\* a response with an error status whose body is a JSON object with exactly
\* one field, error; and no exception ever escapes a handler.
C2_FailureAlwaysAnswered ==
  \A s \in Active :
    LET r == reqs[s]
    IN /\ r.pc # "escaped"
       /\ HasRejectedCall(r) =>
            /\ Answered(r)
            /\ r.resp.status >= 400
            /\ IsErrorEnvelope(r.resp.body)

SessionHandlers == {"categories", "articles", "cases1", "cases2", "reply", "search"}

\* the request reached a handler that needs the CRM session and passed
\* that handler's input validation
NeedsSession(r) ==
  /\ r.ran # <<>>
  /\ r.ran[Len(r.ran)] \in SessionHandlers
  /\ ~(Answered(r) /\ r.resp.status = 400)

\* C3: once the startup login has failed, every request to a route that
\* needs the CRM session is answered with a 401 and no CRM call is started
\* for it.
C3_NotConnectedIs401 ==
  login = "failed" =>
    \A s \in Active :
      LET r == reqs[s]
      IN NeedsSession(r) =>
           /\ Answered(r)
           /\ r.resp.status = 401
           /\ r.calls = <<>>

\* the origin's host is the deployment-preview domain or a subdomain of it
OnPreviewDomain(o) ==
  /\ Len(o) >= 4
  /\ SubSeq(o, Len(o) - 2, Len(o)) = <<"vercel", ".", "app">>
  /\ o[Len(o) - 3] \in {".", "https://", "http://"}

InAllowList(o) == \E i \in 1..Len(allowedOrigins) : allowedOrigins[i] = o

\* C4: for a request whose Origin is neither in the allow-list nor on the
\* deployment-preview domain, no route handler runs and no upstream call
\* (such as the creation of a CaseComment) is made.
C4_DisallowedOriginRunsNoHandler ==
  \A s \in Active :
    LET r == reqs[s]
    IN (r.origin # NoOrigin /\ ~InAllowList(r.origin) /\ ~OnPreviewDomain(r.origin)) =>
         r.ran = <<>> /\ r.calls = <<>>

\* the CRM search of a search request has resolved
SearchResolved(r) ==
  /\ AsksSearch(r) /\ Truthy(r.body.searchTerm)
  /\ r.calls # <<>>
  /\ r.calls[1].op = "search" /\ r.calls[1].out = "resolved"

ZeroCandidates(ret) ==
  "searchRecords" \notin DOMAIN ret \/ ret.searchRecords = <<>>

\* C5: a POST /search with a non-empty searchTerm whose CRM search returned
\* zero candidates is answered 200 with exactly {answer: "I couldn't find
\* any articles related to your search.", sources: []}, and the language
\* model is never called for it.
C5_NoCandidatesAnswer ==
  \A s \in Active :
    LET r == reqs[s]
    IN (SearchResolved(r) /\ ZeroCandidates(r.calls[1].ret)) =>
         /\ Answered(r)
         /\ r.resp = [status |-> 200,
                      body |-> [j |-> "object",
                                v |-> [answer |-> "I couldn't find any articles related to your search.",
                                       sources |-> <<>>]]]
         /\ "generateContent" \notin Range(Ops(r))

C5_Witness ==
  \E s \in Active :
    /\ SearchResolved(reqs[s])
    /\ reqs[s].calls[1].ret = [searchRecords |-> <<>>]
    /\ Answered(reqs[s])

\* C6: for a POST /search whose CRM search returned a non-empty candidate
\* list, the prompt given to the language model contains every candidate's
\* title and the search term; and once the model has returned a completion
\* the answer is that completion text and sources is the candidate list as
\* the CRM returned it, in the same order.
C6_PromptAndAnswer ==
  \A s \in Active :
    LET r == reqs[s]
    IN (SearchResolved(r) /\ ~ZeroCandidates(r.calls[1].ret)) =>
         LET cands == r.calls[1].ret.searchRecords
         IN /\ Len(r.calls) = 2
            /\ r.calls[2].op = "generateContent"
            /\ \A i \in 1..Len(cands) : cands[i].Title \in Range(r.calls[2].arg.prompt)
            /\ r.body.searchTerm.s \in Range(r.calls[2].arg.prompt)
            /\ r.calls[2].out = "resolved" =>
                 /\ Answered(r)
                 /\ r.resp = [status |-> 200,
                              body |-> [j |-> "object",
                                        v |-> [answer |-> r.calls[2].ret,
                                               sources |-> cands]]]

C6_Witness ==
  \E s \in Active :
    /\ SearchResolved(reqs[s])
    /\ reqs[s].calls[1].ret = [searchRecords |-> <<A2, A1>>]
    /\ Len(reqs[s].calls) = 2
    /\ reqs[s].calls[2].out = "resolved"
    /\ Answered(reqs[s])

\* the reply handler ran on a request with a non-empty commentBody
ReplyAccepted(r) ==
  /\ AsksReply(r) /\ "reply" \in Range(r.ran)
  /\ r.body.commentBody.t = "string" /\ r.body.commentBody.s # ""

\* C7: a POST /cases/:caseId/reply with a non-empty commentBody starts
\* exactly one CaseComment creation, with ParentId the caseId of the path
\* and CommentBody the commentBody of the body; IsPublished is false when
\* isPublic is absent and true when isPublic is true.
C7_ReplyCreatesOneComment ==
  \A s \in Active :
    LET r == reqs[s]
    IN ReplyAccepted(r) =>
         /\ Len(r.calls) = 1
         /\ r.calls[1].op = "create"
         /\ r.calls[1].arg.ParentId = r.path[3]
         /\ r.calls[1].arg.CommentBody = r.body.commentBody
         /\ r.body.isPublic = Undefined => r.calls[1].arg.IsPublished = Bool(FALSE)
         /\ r.body.isPublic = Bool(TRUE) => r.calls[1].arg.IsPublished = Bool(TRUE)

C7_Witness ==
  \E s \in Active :
    /\ ReplyAccepted(reqs[s])
    /\ reqs[s].body.isPublic = Undefined
    /\ reqs[s].calls[1].out = "resolved"
    /\ reqs[s].resp.status = 201

\* the handler that answers (or should answer) the request
Handler(r) == IF r.ran = <<>> THEN "none" ELSE r.ran[Len(r.ran)]

\* C8: whenever an upstream call of a request failed, the request is
\* answered 500 with a body fixed by the route: two requests to the same
\* route whose upstream calls failed, whatever the call and the cause, carry
\* the same response, and a search failing at the CRM step carries the same
\* response as one failing at the language-model step.
C8_FailureIsGeneric500 ==
  \A s \in Active :
    LET r == reqs[s]
    IN HasRejectedCall(r) =>
         /\ Answered(r)
         /\ r.resp.status = 500
         /\ IsErrorEnvelope(r.resp.body)
         /\ \A t \in Active :
              (HasRejectedCall(reqs[t]) /\ Handler(reqs[t]) = Handler(r)
                 /\ reqs[t].path = r.path) => reqs[t].resp = r.resp
         /\ Handler(r) = "search" =>
              r.resp.body.v.error = <<"Failed to perform search">>

\* the CRM query of a cases request resolved with a result of zero records
CasesQueryEmpty(r) ==
  /\ AsksCases(r) /\ Len(r.path) = 3
  /\ r.calls # <<>>
  /\ r.calls[1].op = "query" /\ r.calls[1].out = "resolved"
  /\ "records" \in DOMAIN r.calls[1].ret
  /\ r.calls[1].ret.records = <<>>

\* C9: a GET /cases/:email whose CRM query succeeded with zero open cases
\* is answered with HTTP 200 and the empty array as body.
C9_NoCasesIsEmptyArray ==
  \A s \in Active :
    CasesQueryEmpty(reqs[s]) =>
      /\ Answered(reqs[s])
      /\ reqs[s].resp = [status |-> 200, body |-> [j |-> "array", v |-> <<>>]]

C9_Witness ==
  \E s \in Active :
    /\ CasesQueryEmpty(reqs[s])
    /\ reqs[s].path[3] = "pat@example.com"
    /\ Answered(reqs[s])

Success(r) == Answered(r) /\ r.resp.status \in 200..299

NoOpTwice(r) ==
  \A i, k \in 1..Len(r.calls) : i # k => r.calls[i].op # r.calls[k].op

\* a rejected call is the last call of its request, and the request is
\* over without a success response
FailureEndsRequest(r) ==
  \A i \in 1..Len(r.calls) :
    r.calls[i].out = "rejected" =>
      /\ i = Len(r.calls)
      /\ r.pc \in {"done", "escaped"}
      /\ ~Success(r)

\* C10 as stated: no operation is called twice within a request, a request
\* makes at most one upstream call (two on the search endpoint), a request
\* answered by a CRM-backed handler with success made exactly one (on the
\* search endpoint one or two), and a failed call ends the request.
C10_OneCallPerEndpoint ==
  \A s \in Active :
    LET r == reqs[s]
    IN /\ NoOpTwice(r)
       /\ Len(r.calls) <= (IF Handler(r) = "search" THEN 2 ELSE 1)
       /\ (Success(r) /\ Handler(r) \in SessionHandlers) => Len(r.calls) >= 1
       /\ FailureEndsRequest(r)

\* the most upstream calls a handler makes
MostCalls(h) ==
  CASE h \in {"categories", "search"} -> 2
    [] h \in {"articles", "cases1", "cases2", "reply"} -> 1
    [] OTHER -> 0

\* the calls behind a success response
CallsOfSuccess(r) ==
  CASE Handler(r) = "categories" -> {2}
    [] Handler(r) = "search" -> IF r.resp.body.v.sources = <<>> THEN {1} ELSE {2}
    [] Handler(r) \in {"articles", "cases1", "cases2", "reply"} -> {1}
    [] OTHER -> {0}

\* C10, amended: no operation is called twice within a request; the
\* article-list, cases and reply endpoints make at most one upstream call,
\* the categories endpoint at most two (the category groups, then the tree
\* of the first group) and the search endpoint at most two (the CRM search,
\* then the language model when there are candidates); a success response
\* rests on exactly these calls (none for healthcheck); and once an
\* upstream call has failed the request makes no further upstream call and
\* gets no success response.
C10_NoRetries ==
  \A s \in Active :
    LET r == reqs[s]
    IN /\ NoOpTwice(r)
       /\ Len(r.calls) <= MostCalls(Handler(r))
       /\ Success(r) => Len(r.calls) \in CallsOfSuccess(r)
       /\ FailureEndsRequest(r)

C10_Witness ==
  \E s \in Active :
    /\ Handler(reqs[s]) = "categories"
    /\ Success(reqs[s])
    /\ Len(reqs[s].calls) = 2

\* a request whose origin the cors callback refuses reaches no handler,
\* starts no upstream call and ends in Express's error handler
RefusedOriginRunsNoHandler ==
  \A s \in Active :
    ~CorsOrigin(reqs[s].origin) =>
      /\ reqs[s].ran = <<>> /\ reqs[s].calls = <<>>
      /\ reqs[s].resp = Resp(500, Html)

\* C11: conn.login is called once, when the process starts, and never
\* again: after any sequence of requests and whatever the login's outcome
\* the number of login attempts is one, no request has started a login, and
\* after a failed login the process keeps running and handling requests.
C11_LoginOnce ==
  /\ loginAttempts = 1
  /\ \A s \in Active : "login" \notin Range(Ops(reqs[s]))
  /\ login = "failed" => process = "running"

C11_Witness ==
  /\ login = "failed"
  /\ loginAttempts = 1
  /\ \E s \in Active : Handler(reqs[s]) = "search" /\ Answered(reqs[s])

AsksHealthcheck(r) == r.method = "GET" /\ r.path = <<"api", "healthcheck">>

\* C12: a GET /healthcheck that reaches the routes (its origin is not
\* refused by the CORS middleware) is answered at once with HTTP 200 and
\* the body OK and makes no upstream call, whether the CRM login is
\* pending, has failed or has succeeded.
C12_HealthcheckAlwaysOk ==
  \A s \in Active :
    LET r == reqs[s]
    IN (AsksHealthcheck(r) /\ CorsOrigin(r.origin)) =>
         /\ Answered(r)
         /\ r.resp = [status |-> 200, body |-> [j |-> "text", v |-> "OK"]]
         /\ r.calls = <<>>

C12_Witness ==
  /\ login = "failed"
  /\ \E s \in Active :
       /\ AsksHealthcheck(reqs[s])
       /\ reqs[s].ran = <<"healthcheck">>
       /\ Answered(reqs[s])

\* C13: a success response of the category or the article-list endpoint
\* carries a JSON array, or a JSON object with a named array field
\* (topCategories), whatever the CRM returned.
C13_ListShape ==
  \A s \in Active :
    LET r == reqs[s]
    IN (Handler(r) \in {"categories", "articles"} /\ Success(r)) =>
         \/ r.resp.body.j = "array"
         \/ r.resp.body.j = "object" /\ "topCategories" \in DOMAIN r.resp.body.v

\* the handlers registered for the request's method and path
Registered(r) ==
  {routes[i].handler : i \in {k \in 1..Len(routes) : Matches(routes[k], r.method, r.path)}}

\* C14: GET /cases/:email is registered twice, and for every such request
\* only the first-registered handler runs: it never passes control on, so
\* the second handler, its 400 "Email parameter is required." and its
\* ContactEmail / IsClosed = false query never occur, and the request
\* starts at most one CRM query.
C14_OnlyFirstCasesHandlerRuns ==
  \A s \in Active :
    LET r == reqs[s]
    IN (AsksCases(r) /\ Len(r.path) = 3 /\ CorsOrigin(r.origin)) =>
         /\ Registered(r) = {"cases1", "cases2"}
         /\ r.ran = <<"cases1">>
         /\ ~r.next
         /\ r.resp.status # 400
         /\ Len(r.calls) <= 1
         /\ \A i \in 1..Len(r.calls) :
              /\ r.calls[i].op = "query"
              /\ r.calls[i].arg.q[1] = "SELECT Id, CaseNumber, Subject, Description, Status, CreatedDate FROM Case WHERE Contact.Email = '"
              /\ r.calls[i].arg.q[3] = "' AND Status != 'Closed' ORDER BY CreatedDate DESC"

C14_Witness ==
  \E s \in Active :
    /\ AsksCases(reqs[s]) /\ Len(reqs[s].path) = 3
    /\ reqs[s].ran = <<"cases1">>
    /\ Success(reqs[s])

\* handleSearch is called on a blank term in this step
BlankSubmit == tab'.submits # tab.submits /\ Trim(tab.searchTerm) = <<>>

\* nothing of the component's state differs, and no request was sent
TabUntouched ==
  /\ tab'.searchTerm = tab.searchTerm /\ tab'.results = tab.results
  /\ tab'.isLoading = tab.isLoading /\ tab'.error = tab.error
  /\ tab'.phase = tab.phase

\* C15: in the SearchTab, submitting an empty or white-space-only term
\* sends no request and changes no state; isLoading is true exactly while
\* the search request is in flight, and false again once it has come back,
\* with a result or with a failure; after a search that succeeded results
\* is set and error is not, after one that failed error is set and results
\* is not, and the two are never set together.
C15_SearchTabState ==
  /\ [](/\ tab.isLoading <=> tab.phase = "inflight"
        /\ tab.phase = "succeeded" => (tab.results # Null /\ tab.error = "")
        /\ tab.phase = "failed" => (tab.results = Null /\ tab.error # "")
        /\ ~(tab.results # Null /\ tab.error # ""))
  /\ [][BlankSubmit => TabUntouched]_vars

C15_Witness ==
  /\ tab.phase = "failed"
  /\ ~tab.isLoading
  /\ tab.error # ""
  /\ tab.blanks > 0

====
